---- MODULE Spec2Model ----
(***************************************************************************)
(* Model of xpubprincipals (src/main.go): derivation of self-              *)
(* authenticating principals from the children of an extended public key. *)
(*                                                                         *)
(* Representation.  A byte is an integer in 0..255 and a []byte is a       *)
(* sequence of bytes.  A Go string is the sequence of its bytes (ASCII     *)
(* code points).  A uint32 is a pair <<hi, lo>> of 16-bit halves, because  *)
(* the model checker's integers are 32-bit signed.                         *)
(***************************************************************************)
EXTENDS Integers, Sequences, FiniteSets, TLC

\* ---------------------------------------------------------------------
\* uint32 arithmetic on <<hi, lo>> halves
\* ---------------------------------------------------------------------

RECURSIVE Xor16(_, _)
Xor16(a, b) ==
    IF a = 0 THEN b
    ELSE IF b = 0 THEN a
    ELSE (((a % 2) + (b % 2)) % 2) + 2 * Xor16(a \div 2, b \div 2)

RECURSIVE And16(_, _)
And16(a, b) ==
    IF a = 0 \/ b = 0 THEN 0
    ELSE ((a % 2) * (b % 2)) + 2 * And16(a \div 2, b \div 2)

Xor32(x, y) == <<Xor16(x[1], y[1]), Xor16(x[2], y[2])>>

And32(x, y) == <<And16(x[1], y[1]), And16(x[2], y[2])>>

Not32(x) == <<65535 - x[1], 65535 - x[2]>>

Add32(x, y) ==
    LET lo == x[2] + y[2]
        hi == x[1] + y[1] + (lo \div 65536)
    IN  <<hi % 65536, lo % 65536>>

\* x >> n for 0 <= n < 32
Shr32(x, n) ==
    IF n = 0 THEN x
    ELSE IF n < 16
    THEN <<x[1] \div (2^n), (x[2] \div (2^n)) + (x[1] % (2^n)) * (2^(16 - n))>>
    ELSE <<0, x[1] \div (2^(n - 16))>>

\* x << n for 0 <= n < 32, truncated to 32 bits
Shl32(x, n) ==
    IF n = 0 THEN x
    ELSE IF n < 16
    THEN <<((x[1] * (2^n)) % 65536) + (x[2] \div (2^(16 - n))), (x[2] * (2^n)) % 65536>>
    ELSE <<(x[2] * (2^(n - 16))) % 65536, 0>>

\* x | y for words with no bit in common
Or32(x, y) == <<x[1] + y[1], x[2] + y[2]>>

\* bits.RotateLeft32(x, -n): rotate right by n, 0 < n < 32
Rotr32(x, n) == Or32(Shr32(x, n), Shl32(x, 32 - n))

\* binary.BigEndian.PutUint32: the four bytes of x, most significant first
PutUint32(x) == <<x[1] \div 256, x[1] % 256, x[2] \div 256, x[2] % 256>>

\* binary.BigEndian.Uint32: the uint32 held by bytes b[off+1 .. off+4]
BEUint32(b, off) == <<b[off + 1] * 256 + b[off + 2], b[off + 3] * 256 + b[off + 4]>>

\* ---------------------------------------------------------------------
\* crypto/sha256: Sum224
\* ---------------------------------------------------------------------

\* the round constants _K of SHA-256
K256 == <<
    <<17034, 12184>>, <<28983, 17553>>, <<46528, 64463>>, <<59829, 56229>>,
    <<14678, 49755>>, <<23025, 4593>>, <<37439, 33444>>, <<43804, 24277>>,
    <<55303, 43672>>, <<4739, 23297>>, <<9265, 34238>>, <<21772, 32195>>,
    <<29374, 23924>>, <<32990, 45566>>, <<39900, 1703>>, <<49563, 61812>>,
    <<58523, 27073>>, <<61374, 18310>>, <<4033, 40390>>, <<9228, 41420>>,
    <<11753, 11375>>, <<19060, 33962>>, <<23728, 43484>>, <<30457, 35034>>,
    <<38974, 20818>>, <<43057, 50797>>, <<45059, 10184>>, <<48985, 32711>>,
    <<50912, 3059>>, <<54695, 37191>>, <<1738, 25425>>, <<5161, 10599>>,
    <<10167, 2693>>, <<11803, 8504>>, <<19756, 28156>>, <<21304, 3347>>,
    <<25866, 29524>>, <<30314, 2747>>, <<33218, 51502>>, <<37490, 11397>>,
    <<41663, 59553>>, <<43034, 26187>>, <<49739, 35696>>, <<51052, 20899>>,
    <<53650, 59417>>, <<54937, 1572>>, <<62478, 13701>>, <<4202, 41072>>,
    <<6564, 49430>>, <<7735, 27656>>, <<10056, 30540>>, <<13488, 48309>>,
    <<14620, 3251>>, <<20184, 43594>>, <<23452, 51791>>, <<26670, 28659>>,
    <<29839, 33518>>, <<30885, 25455>>, <<33992, 30740>>, <<36039, 520>>,
    <<37054, 65530>>, <<42064, 27883>>, <<48889, 41975>>, <<50801, 30962>> >>

\* the initial hash value of SHA-224 (init0_224 .. init7_224)
Init224 == <<
    <<49413, 40664>>, <<13948, 54535>>, <<12400, 56599>>, <<63246, 22841>>,
    <<65472, 2865>>, <<26712, 5393>>, <<25849, 36775>>, <<48890, 20388>> >>

\* padding of digest.checkSum: 0x80, zeros up to 56 mod 64, the bit length on 8 bytes
Zeros(n) == [j \in 1..n |-> 0]

Sha256Pad(msg) ==
    msg \o <<128>> \o Zeros((55 - Len(msg)) % 64) \o <<0, 0, 0, 0>>
        \o PutUint32(<<(Len(msg) * 8) \div 65536, (Len(msg) * 8) % 65536>>)

\* the message schedule.  A loop over a range lo..hi is written as a fold that
\* splits the range in two halves; the second half starts from the result of the
\* first, once that result is there (the test in the ...From operator).
Sha256Sigma0(v) == Xor32(Xor32(Rotr32(v, 7), Rotr32(v, 18)), Shr32(v, 3))

Sha256Sigma1(v) == Xor32(Xor32(Rotr32(v, 17), Rotr32(v, 19)), Shr32(v, 10))

\* word number t (from 17 on) of the schedule whose earlier words are w
Sha256Word(w, t) ==
    Add32(Add32(Sha256Sigma1(w[t - 2]), w[t - 7]), Add32(Sha256Sigma0(w[t - 15]), w[t - 16]))

\* w extended by the words lo..hi
RECURSIVE Sha256Schedule(_, _, _)
Sha256ScheduleFrom(w, lo, hi) == IF Len(w) = lo - 1 THEN Sha256Schedule(w, lo, hi) ELSE w

Sha256Schedule(w, lo, hi) ==
    IF lo = hi THEN Append(w, Sha256Word(w, lo))
    ELSE Sha256ScheduleFrom(Sha256Schedule(w, lo, (lo + hi) \div 2), ((lo + hi) \div 2) + 1, hi)

\* one round of blockGeneric on the working variables s = <<a,b,c,d,e,f,g,h>>
Sha256T1(s, wt, kt) ==
    Add32(Add32(Add32(s[8], Xor32(Xor32(Rotr32(s[5], 6), Rotr32(s[5], 11)), Rotr32(s[5], 25))),
                Add32(Xor32(And32(s[5], s[6]), And32(Not32(s[5]), s[7])), kt)),
          wt)

Sha256T2(s) ==
    Add32(Xor32(Xor32(Rotr32(s[1], 2), Rotr32(s[1], 13)), Rotr32(s[1], 22)),
          Xor32(Xor32(And32(s[1], s[2]), And32(s[1], s[3])), And32(s[2], s[3])))

Sha256Shift(s, t1, t2) == <<Add32(t1, t2), s[1], s[2], s[3], Add32(s[4], t1), s[5], s[6], s[7]>>

Sha256Round(s, wt, kt) == Sha256Shift(s, Sha256T1(s, wt, kt), Sha256T2(s))

\* rounds lo..hi of blockGeneric
RECURSIVE Sha256Rounds(_, _, _, _)
Sha256RoundsFrom(s, w, lo, hi) == IF Len(s) = 8 THEN Sha256Rounds(s, w, lo, hi) ELSE s

Sha256Rounds(s, w, lo, hi) ==
    IF lo = hi THEN Sha256Round(s, w[lo], K256[lo])
    ELSE Sha256RoundsFrom(Sha256Rounds(s, w, lo, (lo + hi) \div 2), w, ((lo + hi) \div 2) + 1, hi)

\* blockGeneric: fold the 64-byte chunks of p (from chunk number k) into h
Sha256AddState(h, s) == [j \in 1..8 |-> Add32(h[j], s[j])]

Sha256Words(p, off) == [j \in 1..16 |-> BEUint32(p, off + 4 * (j - 1))]

RECURSIVE Sha256Block(_, _, _)
Sha256Block(h, p, k) ==
    IF 64 * k >= Len(p) THEN h
    ELSE Sha256Block(
             Sha256AddState(h, Sha256Rounds(h, Sha256Schedule(Sha256Words(p, 64 * k), 17, 64), 1, 64)),
             p, k + 1)

\* digest.checkSum for SHA-224: the first 28 bytes of the state, big-endian
Sha224Bytes(h) ==
    PutUint32(h[1]) \o PutUint32(h[2]) \o PutUint32(h[3]) \o PutUint32(h[4])
        \o PutUint32(h[5]) \o PutUint32(h[6]) \o PutUint32(h[7])

\* sha256.Sum224
Sum224(data) == Sha224Bytes(Sha256Block(Init224, Sha256Pad(data), 0))

\* ---------------------------------------------------------------------
\* hash/crc32: ChecksumIEEE
\* ---------------------------------------------------------------------

\* crc32.IEEE, the reversed polynomial 0xedb88320
IEEEPoly == <<60856, 33568>>

\* simpleMakeTable: entry i of the table is i shifted out bit by bit
RECURSIVE Crc32Shift(_, _)
Crc32Shift(crc, j) ==
    IF j = 0 THEN crc
    ELSE Crc32Shift(IF crc[2] % 2 = 1 THEN Xor32(Shr32(crc, 1), IEEEPoly)
                                      ELSE Shr32(crc, 1),
                    j - 1)

Crc32Table(i) == Crc32Shift(<<0, i>>, 8)

\* simpleUpdate: crc = tab[byte(crc)^v] ^ (crc >> 8) for each byte v
Crc32Byte(crc, v) == Xor32(Crc32Table(Xor16(crc[2] % 256, v)), Shr32(crc, 8))

\* ... over the bytes lo..hi of p
RECURSIVE Crc32Update(_, _, _, _)
Crc32UpdateFrom(crc, p, lo, hi) == IF Len(crc) = 2 THEN Crc32Update(crc, p, lo, hi) ELSE crc

Crc32Update(crc, p, lo, hi) ==
    IF lo > hi THEN crc
    ELSE IF lo = hi THEN Crc32Byte(crc, p[lo])
    ELSE Crc32UpdateFrom(Crc32Update(crc, p, lo, (lo + hi) \div 2), p, ((lo + hi) \div 2) + 1, hi)

\* crc32.ChecksumIEEE(data) = ^update(^0, data)
ChecksumIEEE(data) == Not32(Crc32Update(Not32(<<0, 0>>), data, 1, Len(data)))

\* ---------------------------------------------------------------------
\* encoding/base32, strings
\* ---------------------------------------------------------------------

\* "ABCDEFGHIJKLMNOPQRSTUVWXYZ234567" (encodeStd) as code points
EncodeStd == <<65, 66, 67, 68, 69, 70, 71, 72, 73, 74, 75, 76, 77, 78, 79, 80,
               81, 82, 83, 84, 85, 86, 87, 88, 89, 90, 50, 51, 52, 53, 54, 55>>

\* base32.StdPadding, the rune '='
StdPadding == 61

\* base32.NoPadding
NoPadding == -1

\* '-' , the separator of strings.Join in SelfAuthenticating
Hyphen == 45

\* the eight 5-bit values of one group of up to five source bytes (Encoding.Encode);
\* missing bytes count as zero
Base32Quintets(src) ==
    LET m  == Len(src)
        s0 == src[1]
        s1 == IF m >= 2 THEN src[2] ELSE 0
        s2 == IF m >= 3 THEN src[3] ELSE 0
        s3 == IF m >= 4 THEN src[4] ELSE 0
        s4 == IF m >= 5 THEN src[5] ELSE 0
    IN  << s0 \div 8,
           ((s0 * 4) % 32) + (s1 \div 64),
           (s1 \div 2) % 32,
           ((s1 * 16) % 32) + (s2 \div 16),
           ((s2 * 2) % 32) + (s3 \div 128),
           (s3 \div 4) % 32,
           ((s3 * 8) % 32) + (s4 \div 32),
           s4 % 32 >>

\* the characters one group of m source bytes yields: 8 for a full group; for a
\* short last group the padding character fills up to 8, or nothing with NoPadding
Base32Group(src, padChar) ==
    LET b    == Base32Quintets(src)
        m    == Len(src)
        used == IF m >= 5 THEN 8 ELSE (m * 8 + 4) \div 5
    IN  [j \in 1..used |-> EncodeStd[b[j] + 1]]
          \o (IF padChar = NoPadding THEN << >> ELSE [j \in 1..(8 - used) |-> padChar])

\* Encoding.EncodeToString with the standard alphabet and padding character padChar
RECURSIVE EncodeToString(_, _)
EncodeToString(src, padChar) ==
    IF Len(src) = 0 THEN << >>
    ELSE IF Len(src) <= 5 THEN Base32Group(src, padChar)
    ELSE Base32Group(SubSeq(src, 1, 5), padChar)
           \o EncodeToString(SubSeq(src, 6, Len(src)), padChar)

\* ToLower leaving the string as it is
ToLowerSkipped(str) == str

\* strings.ToLower on an ASCII string
ToLower(str) == [j \in 1..Len(str) |-> IF str[j] >= 65 /\ str[j] <= 90 THEN str[j] + 32 ELSE str[j]]

\* strings.Join(elems, sep)
RECURSIVE Join(_, _)
Join(elems, sep) ==
    IF Len(elems) = 0 THEN << >>
    ELSE IF Len(elems) = 1 THEN elems[1]
    ELSE elems[1] \o sep \o Join(Tail(elems), sep)

\* ---------------------------------------------------------------------
\* SplitN (main.go:123-142)
\* ---------------------------------------------------------------------

\* one iteration of the loop of SplitN on rune v: st.chunk is the reused buffer of
\* n runes, st.i the fill position, st.chunks the list built so far
SplitNPut(st, n, chunk1) ==
    IF st.i + 1 = n
    THEN [chunk |-> chunk1, i |-> 0, chunks |-> Append(st.chunks, chunk1)]
    ELSE [chunk |-> chunk1, i |-> st.i + 1, chunks |-> st.chunks]

SplitNStep(st, n, v) == SplitNPut(st, n, [st.chunk EXCEPT ![st.i + 1] = v])

\* the loop over the runes lo..hi of str
RECURSIVE SplitNLoop(_, _, _, _, _)
SplitNLoopFrom(st, str, n, lo, hi) == IF st.i < n THEN SplitNLoop(st, str, n, lo, hi) ELSE st

SplitNLoop(st, str, n, lo, hi) ==
    IF lo = hi THEN SplitNStep(st, n, str[lo])
    ELSE SplitNLoopFrom(SplitNLoop(st, str, n, lo, (lo + hi) \div 2), str, n, ((lo + hi) \div 2) + 1, hi)

\* SplitNRest without the last, shorter chunk
SplitNRestDropped(end) == end.chunks

\* after the loop: the runes left in the buffer make the last chunk
SplitNRest(end) ==
    IF end.i > 0 THEN Append(end.chunks, SubSeq(end.chunk, 1, end.i)) ELSE end.chunks

SplitN(str, n) ==
    IF n >= Len(str) THEN <<str>>
    ELSE SplitNRest(SplitNLoop([chunk |-> [j \in 1..n |-> 0], i |-> 0, chunks |-> << >>],
                               str, n, 1, Len(str)))

\* ---------------------------------------------------------------------
\* SelfAuthenticating (main.go:112-121)
\* ---------------------------------------------------------------------

\* tag := []byte{2}
Tag == <<2>>

\* data := append(digest[:], tag...); digest[:] has no spare capacity, so the
\* append copies into a fresh array
SelfAuthData(der) == Sum224(der) \o Tag

\* crc: the four bytes binary.BigEndian.PutUint32 writes for ChecksumIEEE(data)
SelfAuthCrc(data) == PutUint32(ChecksumIEEE(data))

\* the checksum put after the data instead of before it
SelfAuthAppended(data) == data \o SelfAuthCrc(data)

\* append(crc, data...): crc has no spare capacity either, so the bytes handed
\* to the encoder are a fresh array holding crc then data
SelfAuthPrepend(data) == SelfAuthCrc(data) \o data

SelfAuthBuffer(der) == SelfAuthPrepend(SelfAuthData(der))

\* the encoder left with the standard padding
EncoderPaddingStd == StdPadding

\* encoder := base32.StdEncoding.WithPadding(base32.NoPadding)
EncoderPadding == NoPadding

\* groups one rune shorter
ChunkSizeShort == 5 - 1

\* the group size passed to SplitN
ChunkSize == 5

SelfAuthenticating(der) ==
    Join(SplitN(ToLower(EncodeToString(SelfAuthBuffer(der), EncoderPadding)), ChunkSize),
         <<Hyphen>>)

\* ---------------------------------------------------------------------
\* encoding/asn1: Marshal of the ECPubKey structure (main.go:19-27)
\* ---------------------------------------------------------------------

\* a nil error
NoErr == "nil"

\* appendBase128Int: n in base 128, most significant digit first, the high bit
\* set on every byte but the last
RECURSIVE Base128High(_)
Base128High(n) == IF n = 0 THEN << >> ELSE Base128High(n \div 128) \o <<128 + (n % 128)>>

Base128(n) == Base128High(n \div 128) \o <<n % 128>>

RECURSIVE Base128Arcs(_, _)
Base128Arcs(oid, k) ==
    IF k > Len(oid) THEN << >> ELSE Base128(oid[k]) \o Base128Arcs(oid, k + 1)

\* makeObjectIdentifier: the content of an OBJECT IDENTIFIER, or a StructuralError
MakeObjectIdentifier(oid) ==
    IF Len(oid) < 2 \/ oid[1] > 2 \/ (oid[1] < 2 /\ oid[2] >= 40)
    THEN [err |-> "asn1: structure error: invalid object identifier", bytes |-> << >>]
    ELSE [err |-> NoErr, bytes |-> Base128(oid[1] * 40 + oid[2]) \o Base128Arcs(oid, 3)]

\* appendLength / lengthLength: the DER length octets
RECURSIVE Asn1LengthBytes(_)
Asn1LengthBytes(n) == IF n = 0 THEN << >> ELSE Asn1LengthBytes(n \div 256) \o <<n % 256>>

Asn1Length(n) ==
    IF n >= 128 THEN <<128 + Len(Asn1LengthBytes(n))>> \o Asn1LengthBytes(n) ELSE <<n>>

\* universal tags (asn1.TagBitString, asn1.TagOID, asn1.TagSequence) and the
\* constructed bit of the identifier octet
TagBitString == 3

TagOID == 6

TagSequence == 16

ConstructedBit == 32

\* appendTagAndLength followed by the body
Asn1TLV(tag, constructed, body) ==
    <<(IF constructed THEN ConstructedBit ELSE 0) + tag>> \o Asn1Length(Len(body)) \o body

\* bitStringEncoder: the count of unused bits of the last byte, then the bytes
BitStringBody(bs) == <<(8 - (bs.BitLength % 8)) % 8>> \o bs.Bytes

\* marshalling of ECPubKeyMetadata: a SEQUENCE of the two object identifiers
MarshalOIDPair(a, b) ==
    IF a.err # NoErr THEN a
    ELSE IF b.err # NoErr THEN b
    ELSE [err |-> NoErr,
          bytes |-> Asn1TLV(TagSequence, TRUE,
                            Asn1TLV(TagOID, FALSE, a.bytes) \o Asn1TLV(TagOID, FALSE, b.bytes))]

MarshalMetadata(md) ==
    MarshalOIDPair(MakeObjectIdentifier(md.ECPubKeyOID), MakeObjectIdentifier(md.NamedCurveOID))

\* asn1.Marshal(ECPubKey{...}): SEQUENCE { Metadata, PublicKey BIT STRING }
MarshalFields(md, bs) ==
    IF md.err # NoErr THEN md
    ELSE [err |-> NoErr,
          bytes |-> Asn1TLV(TagSequence, TRUE,
                            md.bytes \o Asn1TLV(TagBitString, FALSE, BitStringBody(bs)))]

MarshalECPubKey(v) == MarshalFields(MarshalMetadata(v.Metadata), v.PublicKey)

\* ---------------------------------------------------------------------
\* crypto/elliptic: Marshal.  A big.Int is the sequence of its bytes,
\* most significant first, without leading zero bytes (big.Int.Bytes).
\* ---------------------------------------------------------------------

\* btcec.S256().Params().BitSize
S256BitSize == 256

\* the bytes of the value without zero extension (big.Int.Bytes)
FillBytesUnpadded(v, n) == v

\* big.Int.FillBytes: the value on exactly n bytes, zero-extended on the left
FillBytes(v, n) == [j \in 1..(n - Len(v)) |-> 0] \o v

\* elliptic.Marshal(curve, x, y): 4, then x and y on byteLen bytes each
EllipticMarshal(bitSize, x, y) ==
    LET byteLen == (bitSize + 7) \div 8
    IN  <<4>> \o FillBytes(x, byteLen) \o FillBytes(y, byteLen)

\* ---------------------------------------------------------------------
\* EncodeECPubKey, SECP256K1, ECPubKeyToPrincipal (main.go:86-110)
\* ---------------------------------------------------------------------

SECP256K1 == <<1, 3, 132, 0, 10>>

\* asn1.ObjectIdentifier{1, 2, 840, 10045, 2, 1}
ECPubKeyOID == <<1, 2, 840, 10045, 2, 1>>

\* the value handed to asn1.Marshal; BitLength is left at its zero value
ECPubKeyValue(pubKey) ==
    [Metadata  |-> [ECPubKeyOID |-> ECPubKeyOID, NamedCurveOID |-> SECP256K1],
     PublicKey |-> [Bytes |-> EllipticMarshal(S256BitSize, pubKey.X, pubKey.Y),
                    BitLength |-> 0]]

EncodeECPubKey(pubKey) == MarshalECPubKey(ECPubKeyValue(pubKey))

\* main.go:88-91: the error of EncodeECPubKey, or the principal of its bytes
PrincipalOfDer(m) ==
    IF m.err # NoErr THEN [str |-> << >>, err |-> m.err]
    ELSE [str |-> SelfAuthenticating(m.bytes), err |-> NoErr]

ECPubKeyToPrincipal(pubKey) == PrincipalOfDer(EncodeECPubKey(pubKey))

\* ---------------------------------------------------------------------
\* hdkeychain: the key-derivation collaborator.  Public keys are points of
\* secp256k1, tabulated; the derivation itself (HMAC-SHA512 and point
\* addition) is not modelled.
\* ---------------------------------------------------------------------

\* the public keys of m/0/0 .. m/0/5 under the master key of BIP32 test vector 1
PointsA == <<
    [X |-> <<117, 109, 225, 130, 197, 221, 75, 113, 126, 168, 126, 105, 48, 6, 218, 98,
            219, 179, 205, 218, 164, 165, 202, 210, 237, 31, 91, 186, 183, 85, 240, 245>>,
     Y |-> <<64, 43, 45, 47, 43, 159, 219, 220, 44, 10, 123, 79, 8, 154, 35, 242,
            59, 85, 14, 20, 215, 166, 10, 54, 140, 64, 71, 63, 18, 117, 99, 244>>],
    [X |-> <<231, 64, 210, 19, 161, 170, 87, 70, 198, 107, 174, 30, 205, 163, 185, 93,
            127, 100, 212, 191, 138, 255, 157, 147, 112, 47, 195, 2, 242, 141, 240, 241>>,
     Y |-> <<182, 20, 73, 150, 171, 178, 110, 118, 242, 192, 135, 46, 9, 112, 214, 41,
            137, 159, 244, 65, 195, 139, 246, 58, 89, 66, 77, 150, 150, 182, 199, 220>>],
    [X |-> <<71, 255, 61, 172, 208, 122, 31, 67, 128, 94, 198, 128, 142, 128, 21, 5,
            166, 225, 130, 69, 23, 134, 9, 151, 42, 104, 175, 188, 39, 119, 255, 43>>,
     Y |-> <<12, 229, 85, 98, 222, 233, 242, 41, 193, 173, 40, 222, 132, 199, 44, 56,
            37, 121, 242, 13, 184, 68, 247, 177, 99, 152, 40, 203, 102, 133, 151, 205>>],
    [X |-> <<91, 128, 252, 193, 43, 187, 207, 248, 245, 86, 43, 134, 100, 47, 232, 88,
            55, 56, 217, 192, 229, 88, 211, 147, 19, 112, 26, 36, 172, 155, 144, 166>>,
     Y |-> <<33, 184, 8, 129, 3, 222, 31, 72, 178, 169, 140, 42, 51, 114, 112, 6,
            9, 29, 51, 59, 230, 9, 10, 157, 85, 184, 13, 193, 138, 2, 173, 148>>],
    [X |-> <<83, 68, 150, 174, 136, 18, 163, 21, 2, 13, 219, 18, 252, 237, 65, 27,
            137, 31, 161, 161, 229, 60, 225, 64, 100, 208, 82, 197, 101, 18, 173, 119>>,
     Y |-> <<84, 37, 200, 213, 241, 111, 116, 23, 139, 248, 178, 48, 169, 29, 73, 68,
            176, 237, 161, 137, 169, 93, 167, 64, 228, 195, 166, 237, 52, 204, 251, 21>>],
    [X |-> <<100, 166, 9, 234, 48, 242, 249, 225, 55, 195, 6, 155, 56, 115, 33, 230,
            148, 155, 170, 9, 113, 104, 230, 219, 254, 164, 143, 19, 251, 190, 159, 121>>,
     Y |-> <<20, 201, 41, 119, 81, 206, 240, 45, 6, 68, 31, 162, 55, 244, 238, 160,
            48, 172, 95, 110, 221, 133, 54, 225, 115, 243, 113, 86, 161, 44, 254, 213>>] >>

\* the public keys of m/0/0 .. m/0/5 under the master key of BIP32 test vector 2
PointsB == <<
    [X |-> <<5, 200, 137, 127, 208, 255, 86, 68, 173, 186, 69, 69, 168, 64, 32, 205,
            106, 169, 77, 144, 225, 224, 165, 107, 180, 184, 235, 117, 34, 227, 239, 140>>,
     Y |-> <<60, 230, 161, 119, 3, 37, 105, 159, 6, 114, 1, 105, 133, 219, 74, 89,
            45, 204, 142, 40, 39, 146, 138, 72, 8, 56, 81, 75, 141, 80, 252, 122>>],
    [X |-> <<210, 122, 120, 31, 209, 179, 236, 91, 165, 1, 124, 165, 91, 155, 144, 15,
            222, 89, 132, 89, 160, 32, 69, 151, 179, 126, 108, 102, 160, 227, 92, 152>>,
     Y |-> <<226, 108, 142, 102, 163, 79, 247, 70, 239, 64, 203, 249, 24, 188, 162, 8,
            111, 56, 245, 164, 107, 12, 95, 31, 202, 199, 164, 19, 111, 179, 111, 48>>],
    [X |-> <<203, 70, 91, 125, 38, 50, 53, 12, 193, 57, 86, 168, 8, 177, 30, 188,
            67, 2, 50, 124, 27, 165, 89, 130, 165, 27, 119, 159, 190, 15, 21, 22>>,
     Y |-> <<206, 82, 64, 63, 249, 137, 123, 132, 57, 137, 80, 127, 22, 17, 139, 235,
            32, 75, 207, 89, 26, 15, 157, 120, 178, 26, 80, 118, 204, 101, 85, 229>>],
    [X |-> <<65, 243, 218, 193, 85, 78, 1, 218, 91, 50, 200, 218, 117, 87, 197, 134,
            74, 86, 206, 197, 212, 12, 149, 72, 153, 7, 135, 10, 34, 68, 170, 180>>,
     Y |-> <<26, 80, 146, 126, 49, 43, 170, 63, 121, 95, 170, 102, 219, 247, 234, 50,
            172, 250, 170, 15, 35, 154, 46, 176, 130, 7, 253, 232, 72, 170, 17, 9>>],
    [X |-> <<192, 63, 178, 168, 177, 97, 8, 166, 133, 42, 244, 75, 51, 4, 213, 54,
            143, 148, 17, 211, 26, 220, 47, 68, 178, 220, 95, 33, 116, 41, 75, 22>>,
     Y |-> <<192, 133, 208, 16, 245, 167, 37, 120, 44, 84, 161, 126, 70, 53, 121, 194,
            49, 63, 242, 35, 159, 143, 40, 117, 24, 61, 63, 22, 57, 222, 19, 141>>],
    [X |-> <<236, 209, 123, 157, 12, 254, 24, 174, 16, 200, 45, 72, 131, 34, 148, 100,
            209, 185, 249, 213, 94, 68, 219, 146, 33, 141, 245, 170, 236, 105, 185, 59>>,
     Y |-> <<183, 175, 133, 216, 28, 124, 122, 53, 58, 14, 4, 86, 246, 239, 65, 55,
            79, 22, 181, 128, 212, 127, 132, 229, 172, 80, 174, 93, 175, 61, 148, 33>>] >>

\* curve points with short coordinates: the two points with X = 1, the first
\* multiples of the generator whose X (153 G) and whose Y (122 G) have a zero
\* leading byte, and the generator
PointsSpecial == <<
    [X |-> <<1>>,
     Y |-> <<66, 24, 242, 10, 230, 198, 70, 179, 99, 219, 104, 96, 88, 34, 251, 20,
            38, 76, 168, 210, 88, 127, 221, 111, 188, 117, 13, 88, 126, 118, 167, 238>>],
    [X |-> <<1>>,
     Y |-> <<189, 231, 13, 245, 25, 57, 185, 76, 156, 36, 151, 159, 167, 221, 4, 235,
            217, 179, 87, 45, 167, 128, 34, 144, 67, 138, 242, 166, 129, 137, 84, 65>>],
    [X |-> <<227, 174, 25, 116, 86, 108, 160, 108, 197, 22, 212, 126, 15, 177, 101, 166,
            116, 163, 218, 188, 252, 161, 94, 114, 47, 14, 52, 80, 244, 88, 137>>,
     Y |-> <<42, 234, 190, 126, 69, 49, 81, 1, 22, 33, 127, 7, 191, 77, 7, 48,
            13, 233, 126, 72, 116, 248, 31, 83, 52, 32, 167, 46, 235, 11, 214, 164>>],
    [X |-> <<19, 154, 228, 106, 17, 51, 241, 249, 210, 63, 37, 239, 186, 15, 109, 216,
            123, 247, 221, 175, 86, 138, 95, 185, 224, 163, 191, 218, 115, 23, 98, 55>>,
     Y |-> <<153, 94, 85, 92, 138, 171, 210, 99, 253, 35, 136, 51, 161, 33, 136, 184,
            165, 255, 190, 180, 128, 186, 14, 62, 110, 196, 129, 168, 153, 20, 114>>],
    [X |-> <<121, 190, 102, 126, 249, 220, 187, 172, 85, 160, 98, 149, 206, 135, 11, 7,
            2, 155, 252, 219, 45, 206, 40, 217, 89, 242, 129, 91, 22, 248, 23, 152>>,
     Y |-> <<72, 58, 218, 119, 38, 163, 196, 101, 93, 164, 251, 252, 14, 17, 8, 168,
            253, 23, 180, 72, 166, 133, 84, 25, 156, 71, 208, 143, 251, 16, 212, 184>>] >>

\* the children of the intermediate key of "xpubC": leaf 0 is a point whose X
\* is a single byte; leaf 1 is an invalid child (InvalidChildren)
PointsC == <<PointsSpecial[1]>>

\* the extended keys NewKeyFromString accepts, with the depth byte they carry
KnownKeys ==
    [xpubA |-> [depth |-> 0, points |-> PointsA],
     xpubB |-> [depth |-> 0, points |-> PointsB],
     xpubC |-> [depth |-> 0, points |-> PointsC],
     xpubDepth254 |-> [depth |-> 254, points |-> << >>],
     xpubDepth255 |-> [depth |-> 255, points |-> << >>]]

\* derivations whose intermediate value falls outside the curve order: Child
\* returns ErrInvalidChild for them
InvalidChildren == {<<"xpubC", <<0, 1>>>>}

NoKey == [root |-> "", depth |-> 0, path |-> << >>]

\* hdkeychain.NewKeyFromString
NewKeyFromString(str) ==
    IF str \in DOMAIN KnownKeys
    THEN [err |-> NoErr, key |-> [root |-> str, depth |-> KnownKeys[str].depth, path |-> << >>]]
    ELSE [err |-> "ErrInvalidKeyLen", key |-> NoKey]

\* ExtendedKey.Child(i): one level deeper, unless the depth byte is at its
\* maximum or the child is invalid.  (A hardened index, i >= 2^31, cannot be
\* derived from a public key either; the model's indices stay below it.)
Child(key, idx) ==
    IF key.depth = 255
    THEN [err |-> "ErrDeriveBeyondMaxDepth", key |-> NoKey]
    ELSE IF <<key.root, Append(key.path, idx)>> \in InvalidChildren
    THEN [err |-> "ErrInvalidChild", key |-> NoKey]
    ELSE [err |-> NoErr,
          key |-> [root |-> key.root, depth |-> key.depth + 1, path |-> Append(key.path, idx)]]

NoPoint == [X |-> << >>, Y |-> << >>]

\* ExtendedKey.ECPubKey() of a leaf <<0, idx>>: the tabulated point
ECPubKeyIn(pts, path) ==
    IF Len(path) = 2 /\ path[1] = 0 /\ path[2] < Len(pts)
    THEN [err |-> NoErr, point |-> pts[path[2] + 1]]
    ELSE [err |-> "pubkey not on curve", point |-> NoPoint]

ECPubKey(key) == ECPubKeyIn(KnownKeys[key.root].points, key.path)

\* uint32(i) for the loop counter, 0 <= i < 2^31
Uint32(n) == n

\* =====================================================================
\* The program: main, run, generate (main.go:29-84)
\* =====================================================================

VARIABLES
    pc,              \* position of the process
    argXPubKey,      \* -xpub
    argN,            \* -n
    masterXPubKey,   \* run: the parsed key
    masterXPubKey0,  \* generate: the intermediate key
    i,               \* generate: loop counter
    result,          \* generate: the slice being built
    genRet,          \* what generate returned: [result, err]
    r,               \* run: number of principals already ranged over
    stdout,          \* lines printed on standard output
    stderr,          \* lines printed on standard error
    exitCode,        \* -1 while running
    call,            \* a function under test and its arguments
    ret              \* its return value

vars == <<pc, argXPubKey, argN, masterXPubKey, masterXPubKey0, i, result, genRet,
          r, stdout, stderr, exitCode, call, ret>>

progVars == <<pc, argXPubKey, argN, masterXPubKey, masterXPubKey0, i, result, genRet,
              r, stdout, stderr, exitCode>>

\* largest -n explored
MaxN == 3

\* the -xpub arguments explored: none, the known keys, a string that is no key
XPubArgs == {"", "malformed"} \cup DOMAIN KnownKeys

NoCall == [fn |-> "none"]

NoRet == [done |-> FALSE]

NoGenRet == [result |-> << >>, err |-> NoErr]

ProgInit(p) ==
    /\ pc = p
    /\ masterXPubKey = NoKey
    /\ masterXPubKey0 = NoKey
    /\ i = 0
    /\ result = << >>
    /\ genRet = NoGenRet
    /\ r = 0
    /\ stdout = << >>
    /\ stderr = << >>
    /\ exitCode = -1

Init ==
    /\ argXPubKey \in XPubArgs
    /\ argN \in -1..MaxN
    /\ ProgInit("main")
    /\ call = NoCall
    /\ ret = NoRet

\* main.go:33-36: no -xpub given
MainUsage ==
    /\ pc = "main"
    /\ argXPubKey = ""
    /\ stderr' = Append(stderr, "usage")
    /\ exitCode' = 1
    /\ pc' = "exited"
    /\ UNCHANGED <<argXPubKey, argN, masterXPubKey, masterXPubKey0, i, result, genRet,
                   r, stdout, call, ret>>

\* main.go:38-41: run returned an error
Fail(err) ==
    /\ stderr' = Append(stderr, err)
    /\ exitCode' = 1
    /\ pc' = "exited"

\* main.go:37, 45-48: run parses the key
RunParsed(k) ==
    IF k.err # NoErr
    THEN Fail(k.err) /\ UNCHANGED masterXPubKey
    ELSE /\ masterXPubKey' = k.key
         /\ pc' = "generate"
         /\ UNCHANGED <<stderr, exitCode>>

RunParse ==
    /\ pc = "main"
    /\ argXPubKey # ""
    /\ RunParsed(NewKeyFromString(argXPubKey))
    /\ UNCHANGED <<argXPubKey, argN, masterXPubKey0, i, result, genRet, r, stdout, call, ret>>

\* main.go:63-67: generate derives the intermediate key
GenDerived0(c) ==
    IF c.err # NoErr
    THEN /\ genRet' = [result |-> << >>, err |-> c.err]
         /\ pc' = "returned"
         /\ UNCHANGED <<masterXPubKey0, result, i>>
    ELSE /\ masterXPubKey0' = c.key
         /\ result' = << >>
         /\ i' = 0
         /\ pc' = "loop"
         /\ UNCHANGED genRet

GenChild0 ==
    /\ pc = "generate"
    /\ GenDerived0(Child(masterXPubKey, 0))
    /\ UNCHANGED <<argXPubKey, argN, masterXPubKey, r, stdout, stderr, exitCode, call, ret>>

\* main.go:69-80: the body of the loop for one i, giving [str, err]
LeafPubKey(c) ==
    IF c.err # NoErr THEN [err |-> c.err, point |-> NoPoint] ELSE ECPubKey(c.key)

LeafEncoded(p) ==
    IF p.err # NoErr THEN [str |-> << >>, err |-> p.err] ELSE ECPubKeyToPrincipal(p.point)

LeafPrincipal(key0, idx) == LeafEncoded(LeafPubKey(Child(key0, Uint32(idx))))

\* the principal put in front of the slice instead of behind it
GenPrepended(p) ==
    IF p.err # NoErr
    THEN /\ genRet' = [result |-> << >>, err |-> p.err]
         /\ pc' = "returned"
         /\ UNCHANGED <<result, i>>
    ELSE /\ result' = <<p.str>> \o result
         /\ i' = i + 1
         /\ UNCHANGED <<genRet, pc>>

\* main.go:70-81: return nil and the error, or append the principal
GenAppend(p) ==
    IF p.err # NoErr
    THEN /\ genRet' = [result |-> << >>, err |-> p.err]
         /\ pc' = "returned"
         /\ UNCHANGED <<result, i>>
    ELSE /\ result' = Append(result, p.str)
         /\ i' = i + 1
         /\ UNCHANGED <<genRet, pc>>

\* the loop running while i <= n
GenLoopInclusive ==
    /\ pc = "loop"
    /\ i <= argN
    /\ GenAppend(LeafPrincipal(masterXPubKey0, i))
    /\ UNCHANGED <<argXPubKey, argN, masterXPubKey, masterXPubKey0, r, stdout, stderr,
                   exitCode, call, ret>>

\* main.go:68-82: one iteration
GenLoop ==
    /\ pc = "loop"
    /\ i < argN
    /\ GenAppend(LeafPrincipal(masterXPubKey0, i))
    /\ UNCHANGED <<argXPubKey, argN, masterXPubKey, masterXPubKey0, r, stdout, stderr,
                   exitCode, call, ret>>

\* main.go:83: the loop is over
GenReturn ==
    /\ pc = "loop"
    /\ ~(i < argN)
    /\ genRet' = [result |-> result, err |-> NoErr]
    /\ pc' = "returned"
    /\ UNCHANGED <<argXPubKey, argN, masterXPubKey, masterXPubKey0, i, result, r, stdout,
                   stderr, exitCode, call, ret>>

\* run going on to its print loop whatever generate returned
RunCheckErrorIgnored ==
    /\ pc = "returned"
    /\ r' = 0
    /\ pc' = "print"
    /\ UNCHANGED <<stderr, exitCode>>
    /\ UNCHANGED <<argXPubKey, argN, masterXPubKey, masterXPubKey0, i, result, genRet,
                   stdout, call, ret>>

\* main.go:49-52: run looks at what generate returned
RunCheck ==
    /\ pc = "returned"
    /\ IF genRet.err # NoErr
       THEN Fail(genRet.err) /\ UNCHANGED r
       ELSE /\ r' = 0
            /\ pc' = "print"
            /\ UNCHANGED <<stderr, exitCode>>
    /\ UNCHANGED <<argXPubKey, argN, masterXPubKey, masterXPubKey0, i, result, genRet,
                   stdout, call, ret>>

\* main.go:53-55: one fmt.Println
RunPrint ==
    /\ pc = "print"
    /\ r < Len(genRet.result)
    /\ stdout' = Append(stdout, genRet.result[r + 1])
    /\ r' = r + 1
    /\ UNCHANGED <<pc, argXPubKey, argN, masterXPubKey, masterXPubKey0, i, result, genRet,
                   stderr, exitCode, call, ret>>

\* main.go:56, 37-42: run returns nil and main ends
RunReturn ==
    /\ pc = "print"
    /\ ~(r < Len(genRet.result))
    /\ exitCode' = 0
    /\ pc' = "exited"
    /\ UNCHANGED <<argXPubKey, argN, masterXPubKey, masterXPubKey0, i, result, genRet,
                   r, stdout, stderr, call, ret>>

Next ==
    \/ MainUsage
    \/ RunParse
    \/ GenChild0
    \/ GenLoop
    \/ GenReturn
    \/ RunCheck
    \/ RunPrint
    \/ RunReturn

Spec == Init /\ [][Next]_vars

\* =====================================================================
\* The functions on their own: one call, one return
\* =====================================================================

\* longest string and largest chunk size given to SplitN
MaxStrLen == 5

MaxChunk == 3

\* longest arbitrary byte sequence given to SelfAuthenticating
MaxDerLen == 3

\* all sequences over alphabet of length at most n
SeqsUpTo(alphabet, n) == UNION {[1..k -> alphabet] : k \in 0..n}

Range(f) == {f[j] : j \in DOMAIN f}

\* the curve points explored
AllPoints == Range(PointsA) \cup Range(PointsB) \cup Range(PointsSpecial)

\* the runes of the strings given to SplitN: 'a', 'b'
SplitRunes == {97, 98}

\* the byte sequences given to SelfAuthenticating: the DER records of the points,
\* every short sequence over three byte values, and sequences around the block
\* size of the hash
DerInputs ==
    {EncodeECPubKey(p).bytes : p \in AllPoints}
        \cup SeqsUpTo({0, 48, 255}, MaxDerLen)
        \cup {Zeros(k) : k \in {55, 56, 64}}

FnCalls ==
    {[fn |-> "SplitN", str |-> str, n |-> n] : str \in SeqsUpTo(SplitRunes, MaxStrLen), n \in 1..MaxChunk}
        \cup {[fn |-> "SelfAuthenticating", der |-> d] : d \in DerInputs}
        \cup {[fn |-> "EncodeECPubKey", pubKey |-> p] : p \in AllPoints}
        \cup {[fn |-> "ECPubKeyToPrincipal", pubKey |-> p] : p \in AllPoints}

InitFn ==
    /\ call \in FnCalls
    /\ ret = NoRet
    /\ argXPubKey = ""
    /\ argN = 0
    /\ ProgInit("idle")

Returns(v) ==
    /\ ~ret.done
    /\ ret' = [done |-> TRUE, val |-> v]
    /\ UNCHANGED <<call, progVars>>

CallSplitN ==
    /\ call.fn = "SplitN"
    /\ Returns(SplitN(call.str, call.n))

CallSelfAuthenticating ==
    /\ call.fn = "SelfAuthenticating"
    /\ Returns(SelfAuthenticating(call.der))

CallEncodeECPubKey ==
    /\ call.fn = "EncodeECPubKey"
    /\ Returns(EncodeECPubKey(call.pubKey))

CallECPubKeyToPrincipal ==
    /\ call.fn = "ECPubKeyToPrincipal"
    /\ Returns(ECPubKeyToPrincipal(call.pubKey))

NextFn ==
    \/ CallSplitN
    \/ CallSelfAuthenticating
    \/ CallEncodeECPubKey
    \/ CallECPubKeyToPrincipal

SpecFn == InitFn /\ [][NextFn]_vars

\* =====================================================================
\* Properties
\* =====================================================================

\* what the run's arguments lead to, step by step
ParsedKey == NewKeyFromString(argXPubKey)

Key0 == Child(ParsedKey.key, 0)

LeafKey(k) == Child(Key0.key, k)

\* the principal of the public key of leaf child k of the intermediate key
ExpectedLeaf(k) == ECPubKeyToPrincipal(ECPubKey(LeafKey(k).key).point).str

DerivationsSucceed ==
    /\ ParsedKey.err = NoErr
    /\ Key0.err = NoErr
    /\ \A k \in 0..(argN - 1) : LeafKey(k).err = NoErr /\ ECPubKey(LeafKey(k).key).err = NoErr

ExpectedList == [k \in 1..argN |-> ExpectedLeaf(k - 1)]

\* the error of deriving leaf k, of taking its public key or of encoding it
LeafDerived(k) == LeafPubKey(LeafKey(k))

LeafError(k) ==
    IF LeafDerived(k).err # NoErr THEN LeafDerived(k).err
    ELSE EncodeECPubKey(LeafDerived(k).point).err

\* the error of the first step that fails, or NoErr
FailingLeaves ==
    IF ParsedKey.err = NoErr /\ Key0.err = NoErr
    THEN {k \in 0..(argN - 1) : LeafError(k) # NoErr}
    ELSE {}

FirstLeafError == LeafError(CHOOSE k \in FailingLeaves : \A m \in FailingLeaves : k <= m)

FirstError ==
    IF ParsedKey.err # NoErr THEN ParsedKey.err
    ELSE IF Key0.err # NoErr THEN Key0.err
    ELSE IF FailingLeaves # {} THEN FirstLeafError
    ELSE NoErr

\* C1: when the intermediate and every leaf derivation succeed and N >= 0,
\* generate returns exactly N principals, the k-th being the principal of leaf
\* child k of root.Child(0), and run prints them one per line in index order.
C1_PrincipalsInIndexOrder ==
    (argXPubKey # "" /\ argN >= 0 /\ DerivationsSucceed) =>
        /\ pc = "returned" => genRet = [result |-> ExpectedList, err |-> NoErr]
        /\ pc = "print" => stdout = SubSeq(ExpectedList, 1, r)
        /\ pc = "exited" => (exitCode = 0 /\ stdout = ExpectedList /\ stderr = << >>)

C1_Witness ==
    /\ pc = "exited"
    /\ exitCode = 0
    /\ argN >= 2
    /\ Len(stdout) = argN
    /\ stdout[1] # stdout[2]

\* C2: a run is all-or-nothing: when parsing, the intermediate derivation or a
\* leaf i < N fails, generate returns that error and no list, run returns the
\* error, and no principal line is ever printed.
C2_AllOrNothing ==
    (argXPubKey # "" /\ FirstError # NoErr) =>
        /\ stdout = << >>
        /\ pc # "print"
        /\ pc = "returned" => genRet = [result |-> << >>, err |-> FirstError]
        /\ pc = "exited" => (exitCode = 1 /\ stderr = <<FirstError>>)

\* a leaf fails after an earlier leaf has succeeded
C2_Witness ==
    /\ pc = "exited"
    /\ exitCode = 1
    /\ FailingLeaves # {}
    /\ 0 \notin FailingLeaves
    /\ i >= 1

\* C3 as stated: for every parsable extended public key, a run with N = 0 gives
\* zero output lines and succeeds, generate returning an empty list and no error.
C3_ZeroCountAnyParsableKey ==
    (argXPubKey # "" /\ ParsedKey.err = NoErr /\ argN = 0) =>
        /\ pc = "returned" => genRet = [result |-> << >>, err |-> NoErr]
        /\ pc = "exited" => (exitCode = 0 /\ stdout = << >>)

\* C3 amended: for every parsable extended public key whose intermediate child 0
\* can be derived, a run with N = 0 gives zero output lines and succeeds,
\* generate returning an empty list and no error.
C3_ZeroCountDerivableKey ==
    (argXPubKey # "" /\ ParsedKey.err = NoErr /\ Key0.err = NoErr /\ argN = 0) =>
        /\ pc = "returned" => genRet = [result |-> << >>, err |-> NoErr]
        /\ pc = "exited" => (exitCode = 0 /\ stdout = << >>)

C3_Witness ==
    /\ pc = "exited"
    /\ argN = 0
    /\ ParsedKey.err = NoErr
    /\ Key0.err = NoErr
    /\ exitCode = 0

\* ---------------------------------------------------------------------

\* a principal has been returned, by SelfAuthenticating or ECPubKeyToPrincipal
PrincipalReturned ==
    /\ ret.done
    /\ \/ call.fn = "SelfAuthenticating"
       \/ call.fn = "ECPubKeyToPrincipal" /\ ret.val.err = NoErr

Principal == IF call.fn = "SelfAuthenticating" THEN ret.val ELSE ret.val.str

\* the DER bytes the returned principal was computed from
PrincipalDer ==
    IF call.fn = "SelfAuthenticating" THEN call.der ELSE EncodeECPubKey(call.pubKey).bytes

CountOf(str, c) == Cardinality({j \in DOMAIN str : str[j] = c})

IsHyphen(c) == c = 45

\* 'a'..'z' and '2'..'7'
IsLowerBase32(c) == (c >= 97 /\ c <= 122) \/ (c >= 50 /\ c <= 55)

NotHyphen(c) == c # 45

StripHyphens(str) == SelectSeq(str, NotHyphen)

\* C5: every principal SelfAuthenticating returns, for any input bytes, is 63
\* characters long: 53 base-32 characters and exactly 10 hyphens.
C5_FixedLength ==
    PrincipalReturned =>
        /\ Len(Principal) = 63
        /\ CountOf(Principal, 45) = 10
        /\ Len(StripHyphens(Principal)) = 53

\* the input is the empty byte sequence
C5_Witness == PrincipalReturned /\ call.fn = "SelfAuthenticating" /\ Len(call.der) = 0

\* C6: every character of a principal is '-' or a lowercase character of the
\* base-32 alphabet (a-z, 2-7): no uppercase letter, no '=', nothing else.
C6_Alphabet ==
    PrincipalReturned =>
        \A j \in 1..Len(Principal) : IsHyphen(Principal[j]) \/ IsLowerBase32(Principal[j])

\* a principal holding a letter, a digit and a hyphen
C6_Witness ==
    /\ PrincipalReturned
    /\ \E j \in 1..Len(Principal) : Principal[j] >= 97
    /\ \E j \in 1..Len(Principal) : Principal[j] >= 50 /\ Principal[j] <= 55
    /\ \E j \in 1..Len(Principal) : IsHyphen(Principal[j])

\* C7: removing the hyphens of a principal P gives the unchunked 53-character
\* string, re-chunking it (SplitN by 5, joined with '-') gives P again, and the
\* groups of P are ten groups of 5 followed by one of 3.
C7_ChunkingRoundTrip ==
    PrincipalReturned =>
        /\ StripHyphens(Principal)
             = ToLower(EncodeToString(SelfAuthBuffer(PrincipalDer), NoPadding))
        /\ Len(StripHyphens(Principal)) = 53
        /\ Join(SplitN(StripHyphens(Principal), 5), <<45>>) = Principal
        /\ Len(Principal) = 63
        /\ {j \in 1..Len(Principal) : IsHyphen(Principal[j])} = {6 * k : k \in 1..10}

\* the principal of the DER record of a curve point
C7_Witness == PrincipalReturned /\ call.fn = "ECPubKeyToPrincipal" /\ Len(PrincipalDer) = 88

\* the value of a character of the lowercase base-32 alphabet, -1 for any other
Base32Value(c) ==
    IF c >= 97 /\ c <= 122 THEN c - 97
    ELSE IF c >= 50 /\ c <= 55 THEN c - 24
    ELSE -1

\* bit number b (from 0, most significant first) of the stream of 5-bit values of str
Base32Bit(str, b) == (Base32Value(str[(b \div 5) + 1]) \div (2^(4 - (b % 5)))) % 2

\* byte number k (from 1) of that stream
Base32Byte(str, k) ==
    128 * Base32Bit(str, 8 * k - 8) + 64 * Base32Bit(str, 8 * k - 7)
      + 32 * Base32Bit(str, 8 * k - 6) + 16 * Base32Bit(str, 8 * k - 5)
      + 8 * Base32Bit(str, 8 * k - 4) + 4 * Base32Bit(str, 8 * k - 3)
      + 2 * Base32Bit(str, 8 * k - 2) + Base32Bit(str, 8 * k - 1)

\* the bytes an unpadded base-32 string holds
Base32Decode(str) == [k \in 1..((Len(str) * 5) \div 8) |-> Base32Byte(str, k)]

\* the bytes the returned principal encodes
EncodedBuffer == Base32Decode(StripHyphens(Principal))

\* C8: the buffer that is text-encoded is 33 bytes C || T: T is the 28-byte
\* digest of the DER input followed by the tag byte 2, and C is the big-endian
\* CRC-32 (IEEE) of all 29 bytes of T; the checksum comes first.
C8_BufferLayout ==
    PrincipalReturned =>
        /\ \A j \in 1..Len(Principal) : IsHyphen(Principal[j]) \/ Base32Value(Principal[j]) >= 0
        /\ Len(EncodedBuffer) = 33
        /\ SubSeq(EncodedBuffer, 5, 32) = Sum224(PrincipalDer)
        /\ EncodedBuffer[33] = 2
        /\ BEUint32(EncodedBuffer, 0) = ChecksumIEEE(SubSeq(EncodedBuffer, 5, 33))
        /\ BEUint32(EncodedBuffer, 0) # ChecksumIEEE(SubSeq(EncodedBuffer, 5, 32))

\* the input spans two blocks of the hash
C8_Witness == PrincipalReturned /\ call.fn = "SelfAuthenticating" /\ Len(call.der) > 64

\* 30 56 30 10 06 07 2a 86 48 ce 3d 02 01 06 05 2b 81 04 00 0a 03 42 00: the outer
\* SEQUENCE, the SEQUENCE of 1.2.840.10045.2.1 and 1.3.132.0.10, and the header
\* of a BIT STRING of 65 bytes with no unused bit
DerHeader == <<48, 86, 48, 16, 6, 7, 42, 134, 72, 206, 61, 2, 1, 6, 5, 43, 129, 4, 0, 10,
               3, 66, 0>>

\* a byte sequence without its leading zero bytes
RECURSIVE TrimZeros(_)
TrimZeros(b) == IF Len(b) > 0 /\ b[1] = 0 THEN TrimZeros(Tail(b)) ELSE b

\* C9: the BIT STRING of the DER record holds, with zero unused bits, the byte 4
\* followed by X then Y, each big-endian on 32 bytes padded with zero bytes,
\* after the SEQUENCE of the object identifiers 1.2.840.10045.2.1, 1.3.132.0.10.
C9_DerRecord ==
    (call.fn = "EncodeECPubKey" /\ ret.done) =>
        /\ ret.val.err = NoErr
        /\ Len(ret.val.bytes) = 88
        /\ SubSeq(ret.val.bytes, 1, 23) = DerHeader
        /\ ret.val.bytes[24] = 4
        /\ TrimZeros(SubSeq(ret.val.bytes, 25, 56)) = call.pubKey.X
        /\ TrimZeros(SubSeq(ret.val.bytes, 57, 88)) = call.pubKey.Y

\* a point whose X has leading zero bytes
C9_Witness == call.fn = "EncodeECPubKey" /\ ret.done /\ Len(call.pubKey.X) < 32

RECURSIVE Flatten(_)
Flatten(chunks) == IF Len(chunks) = 0 THEN << >> ELSE chunks[1] \o Flatten(Tail(chunks))

\* C10 as stated: for every ASCII string s, the empty one included, and n >= 1,
\* SplitN(s, n) is a non-empty list of chunks whose concatenation is s, every
\* chunk but the last of n characters, the last of 1 to n characters.
C10_ChunksAsStated ==
    (call.fn = "SplitN" /\ ret.done) =>
        /\ Len(ret.val) >= 1
        /\ Flatten(ret.val) = call.str
        /\ \A j \in 1..(Len(ret.val) - 1) : Len(ret.val[j]) = call.n
        /\ Len(ret.val[Len(ret.val)]) >= 1
        /\ Len(ret.val[Len(ret.val)]) <= call.n

\* C10 amended: ... the last chunk of 1 to n characters when s is not empty; for
\* the empty string the list is the single empty chunk.
C10_Chunks ==
    (call.fn = "SplitN" /\ ret.done) =>
        /\ Len(ret.val) >= 1
        /\ Flatten(ret.val) = call.str
        /\ \A j \in 1..(Len(ret.val) - 1) : Len(ret.val[j]) = call.n
        /\ Len(ret.val[Len(ret.val)]) <= call.n
        /\ IF Len(call.str) = 0 THEN ret.val = << << >> >>
           ELSE Len(ret.val[Len(ret.val)]) >= 1

\* a string that ends in a shorter chunk
C10_Witness ==
    /\ call.fn = "SplitN"
    /\ ret.done
    /\ Len(ret.val) >= 2
    /\ Len(ret.val[Len(ret.val)]) < call.n

====
